---- MODULE Spec2Model ----
(***************************************************************************)
(* Model of mkdocs_ezlinks_plugin: EzLinksReplacer (replacer.py) and Link  *)
(* (types.py).  Python strings are sequences of one-character strings, so  *)
(* that os.path.join/dirname/relpath, urllib.parse.quote, the "." test of  *)
(* the use_directory_urls branch and Link.render are computed character by *)
(* character.  A markdown document is a sequence of tokens: a token is one *)
(* plain character (backtick, newline, ...) or one whole span matched by a *)
(* recognizer's sub-pattern.                                               *)
(***************************************************************************)
EXTENDS Integers, Sequences

VARIABLES
    scanners,            \* self.scanners
    target_scanners,     \* self.target_scanners
    regex,               \* self.regex (unset before compile)
    target_regex,        \* self.target_regex (unset before compile)
    path,                \* self.path (unset before the first replace)
    use_directory_urls,  \* self.use_directory_urls
    file_map,            \* self.file_map
    history,             \* the (path, markdown) of every replace() call so far
    result               \* what the last replace() call was given and returned

vars == <<scanners, target_scanners, regex, target_regex, path,
          use_directory_urls, file_map, history, result>>

(***************************************************************************)
(* Python values                                                           *)
(***************************************************************************)
\* Python's None, kept apart from every str (a str has one-character items).
None == <<"None">>

\* The empty str.
Empty == <<>>

\* Python truthiness of an Optional[str]: None and "" are falsy.
Falsy(s) == s = None \/ s = Empty

\* c in s, for a str s.
Contains(s, c) == \E i \in 1..Len(s) : s[i] = c

RECURSIVE Concat(_)
\* "".join(parts)
Concat(parts) ==
    IF parts = <<>> THEN <<>> ELSE Head(parts) \o Concat(Tail(parts))

(***************************************************************************)
(* os.path (posixpath)                                                     *)
(***************************************************************************)
\* The process's working directory, used by os.path.abspath.
Cwd == <<"/", "w">>

\* Index of the last "/" of p, 0 when there is none (p.rfind("/") + 1).
LastSlash(p) ==
    LET S == {i \in 1..Len(p) : p[i] = "/"}
    IN  IF S = {} THEN 0 ELSE CHOOSE i \in S : \A j \in S : j <= i

RECURSIVE RStripSlash(_)
\* head.rstrip("/")
RStripSlash(p) ==
    IF p # <<>> /\ p[Len(p)] = "/" THEN RStripSlash(SubSeq(p, 1, Len(p) - 1)) ELSE p

\* os.path.join(a, b)
PathJoin(a, b) ==
    IF b # <<>> /\ b[1] = "/" THEN b
    ELSE IF a = <<>> \/ a[Len(a)] = "/" THEN a \o b
    ELSE a \o <<"/">> \o b

\* os.path.dirname(p)
Dirname(p) ==
    LET head == SubSeq(p, 1, LastSlash(p))
    IN  IF head # <<>> /\ (\E i \in 1..Len(head) : head[i] # "/")
        THEN RStripSlash(head) ELSE head

RECURSIVE SplitFrom(_, _, _)
\* p.split("/"), scanning from index i with the current component cur.
SplitFrom(p, i, cur) ==
    IF i > Len(p) THEN <<cur>>
    ELSE IF p[i] = "/" THEN <<cur>> \o SplitFrom(p, i + 1, <<>>)
    ELSE SplitFrom(p, i + 1, Append(cur, p[i]))

Split(p) == SplitFrom(p, 1, <<>>)

RECURSIVE NormComps(_, _)
\* The component list os.path.normpath keeps for an absolute path: "" and "."
\* are dropped, ".." removes the component before it (and is dropped at "/").
NormComps(comps, acc) ==
    IF comps = <<>> THEN acc
    ELSE LET c == Head(comps)
         IN  IF c = <<>> \/ c = <<".">> THEN NormComps(Tail(comps), acc)
             ELSE IF c = <<".", ".">>
                  THEN NormComps(Tail(comps),
                                 IF acc = <<>> THEN acc ELSE SubSeq(acc, 1, Len(acc) - 1))
             ELSE NormComps(Tail(comps), Append(acc, c))

\* [x for x in os.path.abspath(p).split("/") if x]
AbsComps(p) ==
    LET q == IF p # <<>> /\ p[1] = "/" THEN p ELSE PathJoin(Cwd, p)
    IN  NormComps(Split(q), <<>>)

RECURSIVE CommonLen(_, _)
\* len(os.path.commonprefix([a, b])) on component lists
CommonLen(a, b) ==
    IF a = <<>> \/ b = <<>> \/ Head(a) # Head(b) THEN 0
    ELSE 1 + CommonLen(Tail(a), Tail(b))

RECURSIVE JoinComps(_)
\* "/".join(comps)
JoinComps(comps) ==
    IF comps = <<>> THEN <<>>
    ELSE IF Len(comps) = 1 THEN Head(comps)
    ELSE Head(comps) \o <<"/">> \o JoinComps(Tail(comps))

\* os.path.relpath(p, start), for a non-empty p
Relpath(p, start) ==
    LET sl  == AbsComps(start)
        pl  == AbsComps(p)
        i   == CommonLen(sl, pl)
        ups == [k \in 1..(Len(sl) - i) |-> <<".", ".">>]
        rel == ups \o SubSeq(pl, i + 1, Len(pl))
    IN  IF rel = <<>> THEN <<".">> ELSE JoinComps(rel)

(***************************************************************************)
(* urllib.parse.quote                                                      *)
(***************************************************************************)
\* The characters quote() never encodes, together with its default safe="/".
QuoteSafe ==
    {"a", "b", "c", "d", "e", "f", "g", "h", "i", "j", "k", "l", "m",
     "n", "o", "p", "q", "r", "s", "t", "u", "v", "w", "x", "y", "z",
     "A", "B", "C", "D", "E", "F", "G", "H", "I", "J", "K", "L", "M",
     "N", "O", "P", "Q", "R", "S", "T", "U", "V", "W", "X", "Y", "Z",
     "0", "1", "2", "3", "4", "5", "6", "7", "8", "9",
     "_", ".", "-", "~", "/"}

\* "%XX" of one character outside QuoteSafe.
PercentCode(c) ==
    CASE c = " "  -> <<"%", "2", "0">>
      [] c = "#"  -> <<"%", "2", "3">>
      [] c = "%"  -> <<"%", "2", "5">>
      [] c = "["  -> <<"%", "5", "B">>
      [] c = "]"  -> <<"%", "5", "D">>
      [] OTHER    -> <<"%", "3", "F">>

\* urllib.parse.quote(s)
Quote(s) ==
    Concat([i \in 1..Len(s) |-> IF s[i] \in QuoteSafe THEN <<s[i]>> ELSE PercentCode(s[i])])

(***************************************************************************)
(* types.py: Link                                                          *)
(***************************************************************************)
\* The dataclass Link(image, text, target, anchor, title).
Link(image, text, target, anchor, title) ==
    [image |-> image, text |-> text, target |-> target, anchor |-> anchor,
     title |-> title]

\* Link.render(title_as_text)
render(link, title_as_text) ==
    LET img    == IF link.image THEN <<"!">> ELSE <<>>
        anchor == IF link.anchor # Empty THEN <<"#">> \o link.anchor ELSE <<>>
        title  == IF link.title # Empty
                  THEN <<" ", "\"">> \o link.title \o <<"\"">> ELSE <<>>
    IN  IF title_as_text /\ link.title # Empty
        THEN img \o <<"[">> \o link.title \o <<"]", "(">> \o link.target \o anchor \o <<")">>
        ELSE img \o <<"[">> \o link.text \o <<"]", "(">> \o link.target \o anchor
                 \o title \o <<")">>

(***************************************************************************)
(* Collaborators of the engine: recognizers (scanners/) and the location   *)
(* index (file_mapper.py)                                                  *)
(***************************************************************************)
\* A recognizer: the class of spans its pattern() matches, and the classes of
\* match its match() claims (it tests the capture groups of those patterns).
WikiLinkScanner == [name |-> "wiki",    claims |-> {"wiki"}]
RefLinkScanner  == [name |-> "reflink", claims |-> {"reflink"}]
RefDefScanner   == [name |-> "refdef",  claims |-> {"refdef"}]
AltDefScanner   == [name |-> "altdef",  claims |-> {"refdef", "altdef"}]

\* The recognizers the plugin can register with add_scanner / add_target_scanner.
LinkScanners   == {WikiLinkScanner, RefLinkScanner}
TargetScanners == {RefDefScanner, AltDefScanner}

\* scanner.match(match): no sub-pattern group of a code-span match is set.
ScannerMatch(scanner, m) == m.cls \in scanner.claims

\* scanner.extract(match) returns None.
ExtractFails(scanner, m) == m.tok.bad

\* scanner.extract(match): the span's decomposition; a recognizer reading
\* another pattern's groups finds no title group.
ScannerExtract(scanner, m) ==
    IF scanner.name = m.cls THEN m.tok.link
    ELSE [m.tok.link EXCEPT !.title = Empty]

\* The documentation root the engine is constructed with.
Root == <<"/", "r">>

\* The files the location index knows, by logical target name.
FileIndex(target) ==
    CASE target = <<"T">> -> <<"/", "r", "/", "c", "/", "t", ".", "m", "d">>
      [] target = <<"S">> -> <<"/", "r", "/", "c", "/", "p", " ", "q", ".", "m", "d">>
      [] target = <<"N">> -> <<"/", "r", "/", "c", "/", "n">>
      [] target = <<"V">> -> <<"/", "r", "/", "v", ".", "1", "/", "n">>
      [] OTHER -> None

\* The two ways an index reports not-found to `if not search_result`.
FileMaps == {"none_on_miss", "empty_on_miss"}

\* file_map.search(origin, target)
Search(fm, origin, target) ==
    IF FileIndex(target) # None THEN FileIndex(target)
    ELSE IF fm = "none_on_miss" THEN None ELSE Empty

(***************************************************************************)
(* Documents                                                               *)
(***************************************************************************)
NoLink == Link(FALSE, Empty, Empty, Empty, Empty)

\* One plain character of the document.
Chr(c) == [cls |-> "chr", raw |-> <<c>>, link |-> NoLink, bad |-> FALSE]

\* One span matched by the sub-pattern of recognizer class cls.
Span(cls, raw, link, bad) == [cls |-> cls, raw |-> raw, link |-> link, bad |-> bad]

\* The backtick character, written by name.
Tick == Chr("BACKTICK")
NL   == Chr("\n")

\* [[T]]
wT == Span("wiki", <<"[", "[", "T", "]", "]">>,
           Link(FALSE, <<"T">>, <<"T">>, Empty, Empty), FALSE)
\* ![[T]]
wIT == Span("wiki", <<"!", "[", "[", "T", "]", "]">>,
            Link(TRUE, <<"T">>, <<"T">>, Empty, Empty), FALSE)
\* [[S#h]]
wS == Span("wiki", <<"[", "[", "S", "#", "h", "]", "]">>,
           Link(FALSE, <<"S">>, <<"S">>, <<"h">>, Empty), FALSE)
\* [[X]], a target the index does not know
wX == Span("wiki", <<"[", "[", "X", "]", "]">>,
           Link(FALSE, <<"X">>, <<"X">>, Empty, Empty), FALSE)
\* [[#h]]
wA == Span("wiki", <<"[", "[", "#", "h", "]", "]">>,
           Link(FALSE, <<"h">>, Empty, <<"h">>, Empty), FALSE)
\* ![[#h|L]]
wIA == Span("wiki", <<"!", "[", "[", "#", "h", "|", "L", "]", "]">>,
            Link(TRUE, <<"L">>, Empty, <<"h">>, Empty), FALSE)
\* [[]]
wE == Span("wiki", <<"[", "[", "]", "]">>,
           Link(FALSE, Empty, Empty, Empty, Empty), FALSE)
\* [[N]]
wN == Span("wiki", <<"[", "[", "N", "]", "]">>,
           Link(FALSE, <<"N">>, <<"N">>, Empty, Empty), FALSE)
\* [[V]]
wV == Span("wiki", <<"[", "[", "V", "]", "]">>,
           Link(FALSE, <<"V">>, <<"V">>, Empty, Empty), FALSE)
\* [[R]]
wR == Span("wiki", <<"[", "[", "R", "]", "]">>,
           Link(FALSE, <<"R">>, <<"R">>, Empty, Empty), FALSE)
\* ![[R]]
wIR == Span("wiki", <<"!", "[", "[", "R", "]", "]">>,
            Link(TRUE, <<"R">>, <<"R">>, Empty, Empty), FALSE)
\* [L][R]
rLR == Span("reflink", <<"[", "L", "]", "[", "R", "]">>,
            Link(FALSE, <<"L">>, <<"R">>, Empty, Empty), FALSE)
\* [R]: T "M"
dRT == Span("refdef", <<"[", "R", "]", ":", " ", "T", " ", "\"", "M", "\"">>,
            Link(FALSE, <<"R">>, <<"T">>, Empty, <<"M">>), FALSE)
\* [R]: S
dRS == Span("refdef", <<"[", "R", "]", ":", " ", "S">>,
            Link(FALSE, <<"R">>, <<"S">>, Empty, Empty), FALSE)
\* [R]: V
dRV == Span("refdef", <<"[", "R", "]", ":", " ", "V">>,
            Link(FALSE, <<"R">>, <<"V">>, Empty, Empty), FALSE)
\* [R]: X
dRX == Span("refdef", <<"[", "R", "]", ":", " ", "X">>,
            Link(FALSE, <<"R">>, <<"X">>, Empty, Empty), FALSE)
\* [R]:
dRE == Span("refdef", <<"[", "R", "]", ":">>,
            Link(FALSE, <<"R">>, Empty, Empty, Empty), FALSE)
\* [R]: #h
dRA == Span("refdef", <<"[", "R", "]", ":", " ", "#", "h">>,
            Link(FALSE, <<"R">>, Empty, <<"h">>, Empty), FALSE)
\* [R] : T, which extract() of the recognizer cannot decompose
dBad == Span("refdef", <<"[", "R", "]", " ", ":", " ", "T">>,
             Link(FALSE, <<"R">>, <<"T">>, Empty, Empty), TRUE)

\* match.group(0) of the tokens md[a..b]
RawText(md, a, b) == Concat([i \in 1..(b - a + 1) |-> md[a + i - 1].raw])

(***************************************************************************)
(* replacer.py: the compiled patterns and their matches                    *)
(***************************************************************************)
\* The attribute is not set yet (self.regex, self.target_regex before compile).
Unset == [set |-> FALSE, code |-> FALSE, alts |-> <<>>]

IsTick(md, i) == i >= 1 /\ i <= Len(md) /\ md[i] = Tick

\* `$` under re.MULTILINE: position i is the end of the text or before "\n".
AtLineEnd(md, i) == i > Len(md) \/ md[i] = NL

Min(S) == CHOOSE x \in S : \A y \in S : x <= y

\* The fence alternative at i: three backticks, the shortest body, three
\* backticks at the end of a line.  The index of the last token, 0 for no match.
FenceEnd(md, i) ==
    IF ~(IsTick(md, i) /\ IsTick(md, i + 1) /\ IsTick(md, i + 2)) THEN 0
    ELSE LET J == {j \in (i + 3)..Len(md) :
                      /\ IsTick(md, j) /\ IsTick(md, j + 1) /\ IsTick(md, j + 2)
                      /\ AtLineEnd(md, j + 3)}
         IN  IF J = {} THEN 0 ELSE Min(J) + 2

\* The inline-code alternative at i: a backtick, the shortest body, a backtick.
InlineEnd(md, i) ==
    IF ~IsTick(md, i) THEN 0
    ELSE LET J == {j \in (i + 1)..Len(md) : IsTick(md, j)}
         IN  IF J = {} THEN 0 ELSE Min(J)

\* A re.Match: the alternative that matched, its span and its text.
Match(cls, md, a, b) ==
    [cls |-> cls, start |-> a, stop |-> b, raw |-> RawText(md, a, b), tok |-> md[a]]

NoMatch == [cls |-> "none", start |-> 0, stop |-> 0, raw |-> Empty, tok |-> Tick]

\* The match of the compiled pattern re that starts at i: the code
\* alternatives come first, then the sub-patterns.
MatchAt(re, md, i) ==
    LET fence  == IF re.code THEN FenceEnd(md, i) ELSE 0
        inline == IF re.code /\ fence = 0 THEN InlineEnd(md, i) ELSE 0
    IN  IF fence # 0 THEN Match("code", md, i, fence)
        ELSE IF inline # 0 THEN Match("code", md, i, inline)
        ELSE IF \E k \in 1..Len(re.alts) : re.alts[k] = md[i].cls
             THEN Match(md[i].cls, md, i, i)
        ELSE NoMatch

RECURSIVE FindIter(_, _, _)
\* re.finditer(re, md) from position i: the non-overlapping matches, leftmost first.
FindIter(re, md, i) ==
    IF i > Len(md) THEN <<>>
    ELSE LET m == MatchAt(re, md, i)
         IN  IF m.cls = "none" THEN FindIter(re, md, i + 1)
             ELSE <<m>> \o FindIter(re, md, m.stop + 1)

\* compile(): the combined pattern, with the code alternatives in front.
CompileRegex(ss) == [set |-> TRUE, code |-> TRUE, alts |-> [k \in 1..Len(ss) |-> ss[k].name]]

\* compile(): the definition pattern, which has no code alternative.
CompileTargetRegex(ss) ==
    [set |-> TRUE, code |-> FALSE, alts |-> [k \in 1..Len(ss) |-> ss[k].name]]

(***************************************************************************)
(* replacer.py: resolution                                                 *)
(***************************************************************************)
\* search_result + ".md" if "." not in search_result else search_result
MdSuffixed(sr) ==
    IF ~Contains(sr, ".") THEN sr \o <<".", "m", "d">> ELSE sr

\* The search through the file map and what follows it, in both passes:
\* "TypeError" when `"." not in None` is evaluated, "BrokenLink" when the
\* result is falsy, else the resolved path.
Resolve(self, target) ==
    LET sr == Search(self.file_map, self.path, target)
    IN  IF ~self.use_directory_urls /\ sr = None
        THEN [status |-> "TypeError", path |-> None]
        ELSE LET sr2 == IF ~self.use_directory_urls THEN MdSuffixed(sr) ELSE sr
             IN  IF Falsy(sr2) THEN [status |-> "BrokenLink", path |-> None]
                 ELSE [status |-> "ok", path |-> sr2]

\* abs_from = os.path.dirname(os.path.join(self.root, self.path))
AbsFrom(self) == Dirname(PathJoin(self.root, self.path))

\* SelfTarget, had the document's directory been taken for the document.
SelfTargetDir(self) == Dirname(PathJoin(self.root, self.path))

\* The target of a local page anchor: os.path.join(self.root, self.path)
SelfTarget(self) == PathJoin(self.root, self.path)

(***************************************************************************)
(* replacer.py: _build_target_map                                          *)
(***************************************************************************)
\* target_map = {}
EmptyMap == [k \in {} |-> NoLink]

\* target_map[key] = link
MapPut(map, key, link) ==
    [k \in DOMAIN map \cup {key} |-> IF k = key THEN link ELSE map[k]]

RECURSIVE TargetScannerLoop(_, _, _, _)
\* `for scanner in self.target_scanners` for one match m, from scanner k on.
\* acc is [map, extracts, raised]; a BrokenLink ends the loop for this match,
\* a TypeError is not caught.  The loop goes on after a scanner has stored
\* its link.
TargetScannerLoop(self, m, k, acc) ==
    IF k > Len(self.target_scanners) THEN acc
    ELSE IF ~ScannerMatch(self.target_scanners[k], m)
         THEN TargetScannerLoop(self, m, k + 1, acc)
    ELSE LET scanner == self.target_scanners[k]
             logged  == [acc EXCEPT !.extracts = Append(@, <<m.start, k>>)]
             link    == ScannerExtract(scanner, m)
         IN  IF ExtractFails(scanner, m) THEN logged
             ELSE IF link.target = Empty
                  THEN IF link.anchor # Empty
                       THEN TargetScannerLoop(self, m, k + 1,
                                [logged EXCEPT !.map = MapPut(@, link.text,
                                    [link EXCEPT !.target =
                                        Relpath(SelfTarget(self), AbsFrom(self))])])
                       ELSE logged
             ELSE LET r == Resolve(self, link.target)
                  IN  IF r.status = "TypeError" THEN [logged EXCEPT !.raised = "TypeError"]
                      ELSE IF r.status = "BrokenLink" THEN logged
                      ELSE TargetScannerLoop(self, m, k + 1,
                               [logged EXCEPT !.map = MapPut(@, link.text,
                                   [link EXCEPT !.target = Relpath(r.path, AbsFrom(self))])])

RECURSIVE TargetMatchLoop(_, _, _)
\* `for match in re.finditer(self.target_regex, markdown)`
TargetMatchLoop(self, ms, acc) ==
    IF ms = <<>> \/ acc.raised # "none" THEN acc
    ELSE TargetMatchLoop(self, Tail(ms), TargetScannerLoop(self, Head(ms), 1, acc))

\* _build_target_map(markdown): the map, the extract() calls made (match
\* position, scanner index) and the exception that escaped, if any.
build_target_map(self, markdown) ==
    TargetMatchLoop(self, FindIter(self.target_regex, markdown, 1),
                    [map |-> EmptyMap, extracts |-> <<>>, raised |-> "none"])

(***************************************************************************)
(* replacer.py: _do_replace and replace                                    *)
(***************************************************************************)
\* What _do_replace did with one match: the text it returned (out), the
\* exception that escaped (raised), the scanner that claimed the match (0 for
\* none), the link it extracted, the targets it passed to file_map.search and
\* how it ended: rendered from the index, the target map or as a self anchor,
\* left as it is after a BrokenLink ("broken"), unclaimed ("none"), or with
\* an exception that is not caught ("error").
Piece(m, out, raised, claimed, link, searched, via) ==
    [cls |-> m.cls, start |-> m.start, raw |-> m.raw, out |-> out, raised |-> raised,
     claimed |-> claimed, link |-> link, searched |-> searched, via |-> via]

\* Unaltered, had the fall-through returned an empty replacement.
Dropped(m) == Empty

\* The fall-through: return match.group(0)
Unaltered(m) == m.raw

RECURSIVE ScannerLoop(_, _, _, _)
\* `for scanner in self.scanners` of _do_replace, from scanner k on.
ScannerLoop(self, m, target_map, k) ==
    IF k > Len(self.scanners)
    THEN Piece(m, Unaltered(m), "none", 0, NoLink, <<>>, "none")
    ELSE IF ~ScannerMatch(self.scanners[k], m)
         THEN ScannerLoop(self, m, target_map, k + 1)
    ELSE LET scanner == self.scanners[k]
             link    == ScannerExtract(scanner, m)
         IN  IF ExtractFails(scanner, m)
             THEN Piece(m, Unaltered(m), "none", k, NoLink, <<>>, "broken")
             ELSE IF link.target = Empty
                  THEN IF link.anchor # Empty
                       THEN Piece(m,
                                render([link EXCEPT !.target =
                                    Quote(Relpath(SelfTarget(self), AbsFrom(self)))], FALSE),
                                "none", k, link, <<>>, "self")
                       ELSE Piece(m, Unaltered(m), "none", k, link, <<>>, "broken")
             ELSE IF link.target \in DOMAIN target_map
                  THEN Piece(m, render(target_map[link.target], TRUE),
                             "none", k, link, <<>>, "map")
             ELSE LET r == Resolve(self, link.target)
                  IN  IF r.status = "TypeError"
                      THEN Piece(m, None, "TypeError", k, link, <<link.target>>, "error")
                      ELSE IF r.status = "BrokenLink"
                      THEN Piece(m, Unaltered(m), "none", k, link, <<link.target>>, "broken")
                      ELSE Piece(m,
                               render([link EXCEPT !.target =
                                   Quote(Relpath(r.path, AbsFrom(self)))], FALSE),
                               "none", k, link, <<link.target>>, "index")

\* _do_replace(match, target_map)
do_replace(self, m, target_map) == ScannerLoop(self, m, target_map, 1)

RECURSIVE Sub(_, _, _, _)
\* re.sub(self.regex, do_replace, markdown) from position i: one piece per
\* match and one per character outside the matches, up to the first piece
\* whose replacement raised.
Sub(self, target_map, md, i) ==
    IF i > Len(md) THEN <<>>
    ELSE LET m == MatchAt(self.regex, md, i)
         IN  IF m.cls = "none"
             THEN <<Piece(Match("text", md, i, i), md[i].raw, "none", 0, NoLink, <<>>, "none")>>
                      \o Sub(self, target_map, md, i + 1)
             ELSE LET p == do_replace(self, m, target_map)
                  IN  IF p.raised # "none" THEN <<p>>
                      ELSE <<p>> \o Sub(self, target_map, md, m.stop + 1)

\* SetPath, had the path been stored by the first call only.
SetPathOnce(self, p) == IF self.path = None THEN [self EXCEPT !.path = p] ELSE self

\* self.path = path
SetPath(self, p) == [self EXCEPT !.path = p]

\* What the caller of replace() gets and what the call left behind: the
\* engine s1, the target map tm it built and the pieces of the substitution;
\* the text (out) is returned unless an exception escaped (raised).
Returned(s1, p, markdown, tm, pieces, raised) ==
    [self       |-> s1,
     called     |-> TRUE,
     path       |-> p,
     markdown   |-> markdown,
     target_map |-> tm.map,
     extracts   |-> tm.extracts,
     map_raised |-> tm.raised,
     pieces     |-> pieces,
     raised     |-> raised,
     out        |-> IF raised # "none" THEN None
                    ELSE Concat([i \in 1..Len(pieces) |-> pieces[i].out])]

\* return re.sub(self.regex, do_replace, markdown), after the target map tm
\* was built: nothing is substituted when building it raised.
Substituted(s1, p, markdown, tm, pieces) ==
    Returned(s1, p, markdown, tm, pieces,
             IF tm.raised # "none" THEN tm.raised
             ELSE IF \E i \in 1..Len(pieces) : pieces[i].raised # "none"
                  THEN "TypeError" ELSE "none")

\* target_map = self._build_target_map(markdown) and what follows it.
Built(s1, p, markdown, tm) ==
    Substituted(s1, p, markdown, tm,
                IF tm.raised # "none" THEN <<>> ELSE Sub(s1, tm.map, markdown, 1))

\* replace(path, markdown) on the engine self.
replace(self, p, markdown) ==
    Built(SetPath(self, p), p, markdown, build_target_map(SetPath(self, p), markdown))

(***************************************************************************)
(* Bounds and inputs                                                       *)
(***************************************************************************)
\* Longest document, in tokens, of the link specifications.
MaxLen == 2

\* Longest document, in tokens, of the code-span specification.
MaxCodeLen == 7

\* Number of replace() calls in the call-sequence specification.
MaxCalls == 2

SeqsUpTo(S, n) == UNION {[1..k -> S] : k \in 0..n}

\* The document paths handed to replace(), relative to Root.
DocPaths ==
    {<<"a", "/", "b", ".", "m", "d">>,
     <<"c", "/", "m", " ", "y", ".", "m", "d">>,
     <<"k", ".", "m", "d">>}

LinkTokens ==
    {wT, wIT, wS, wX, wA, wIA, wE, wN, wV, wR, wIR, rLR, dRT, dRS, dRV, dRX, dRE, dRA,
     dBad}

LinkDocs == SeqsUpTo(LinkTokens, MaxLen)

AnchorDocs == SeqsUpTo({wA, wIA, wT, wR, dRA}, MaxLen)

CodeDocs == SeqsUpTo({Tick, NL, wT}, MaxCodeLen)

SeqDocs == {<<dRT, wR>>, <<dRS, rLR>>, <<wR>>, <<wT>>, <<wA>>, <<wX, wS>>}

(***************************************************************************)
(* The engine as a state machine                                           *)
(***************************************************************************)
\* The EzLinksReplacer instance.
Self ==
    [root |-> Root, path |-> path, use_directory_urls |-> use_directory_urls,
     file_map |-> file_map, scanners |-> scanners, target_scanners |-> target_scanners,
     regex |-> regex, target_regex |-> target_regex]

\* No replace() call has returned yet.
NoResult ==
    [called |-> FALSE, path |-> None, markdown |-> <<>>, target_map |-> EmptyMap,
     extracts |-> <<>>, map_raised |-> "none", pieces |-> <<>>, raised |-> "none",
     out |-> None]

\* __init__(root, file_map, use_directory_urls, options, logger)
Init ==
    /\ scanners = <<>>
    /\ target_scanners = <<>>
    /\ regex = Unset
    /\ target_regex = Unset
    /\ path = None
    /\ use_directory_urls \in BOOLEAN
    /\ file_map \in FileMaps
    /\ history = <<>>
    /\ result = NoResult

\* add_scanner(scanner): each recognizer is registered once, before compile().
add_scanner(kinds) ==
    \E s \in kinds :
        /\ ~regex.set
        /\ \A k \in 1..Len(scanners) : scanners[k] # s
        /\ scanners' = Append(scanners, s)
        /\ UNCHANGED <<target_scanners, regex, target_regex, path, use_directory_urls,
                       file_map, history, result>>

\* add_target_scanner(scanner)
add_target_scanner(kinds) ==
    \E s \in kinds :
        /\ ~regex.set
        /\ \A k \in 1..Len(target_scanners) : target_scanners[k] # s
        /\ target_scanners' = Append(target_scanners, s)
        /\ UNCHANGED <<scanners, regex, target_regex, path, use_directory_urls,
                       file_map, history, result>>

\* compile(), called once after the recognizers are registered.
compile ==
    /\ ~regex.set
    /\ regex' = CompileRegex(scanners)
    /\ target_regex' = CompileTargetRegex(target_scanners)
    /\ UNCHANGED <<scanners, target_scanners, path, use_directory_urls, file_map,
                   history, result>>

\* The state after a replace(p, markdown) call that ended as r.
Called(r, p, markdown) ==
    /\ path' = r.self.path
    /\ history' = Append(history, <<p, markdown>>)
    /\ result' = [called |-> r.called, path |-> r.path, markdown |-> r.markdown,
                  target_map |-> r.target_map, extracts |-> r.extracts,
                  map_raised |-> r.map_raised, pieces |-> r.pieces,
                  raised |-> r.raised, out |-> r.out]

\* replace(path, markdown), for a document of docs, at most limit times.
Replace(paths, docs, limit) ==
    /\ regex.set
    /\ Len(history) < limit
    /\ \E p \in paths, markdown \in docs : Called(replace(Self, p, markdown), p, markdown)
    /\ UNCHANGED <<scanners, target_scanners, regex, target_regex,
                   use_directory_urls, file_map>>

\* One document of links and definitions on a freshly compiled engine.
Next ==
    \/ add_scanner(LinkScanners)
    \/ add_target_scanner(TargetScanners)
    \/ compile
    \/ Replace(DocPaths, LinkDocs, 1)

Spec == Init /\ [][Next]_vars

\* One document of self-anchors on a freshly compiled engine.
NextAnchor ==
    \/ add_scanner(LinkScanners)
    \/ add_target_scanner(TargetScanners)
    \/ compile
    \/ Replace(DocPaths, AnchorDocs, 1)

SpecAnchor == Init /\ [][NextAnchor]_vars

\* One document of backticks, newlines and wikilinks on a freshly compiled engine.
NextCode ==
    \/ add_scanner({WikiLinkScanner})
    \/ add_target_scanner({RefDefScanner})
    \/ compile
    \/ Replace({<<"a", "/", "b", ".", "m", "d">>}, CodeDocs, 1)

SpecCode == Init /\ [][NextCode]_vars

\* A sequence of documents on one compiled engine.
NextSeq ==
    \/ add_scanner(LinkScanners)
    \/ add_target_scanner(TargetScanners)
    \/ compile
    \/ Replace(DocPaths, SeqDocs, MaxCalls)

SpecSeq == Init /\ [][NextSeq]_vars

(***************************************************************************)
(* Reading the last call's result                                          *)
(***************************************************************************)
\* First index at which pat occurs in s, 0 when it does not.
IndexOf(s, pat) ==
    LET I == {i \in 1..(Len(s) - Len(pat) + 1) : SubSeq(s, i, i + Len(pat) - 1) = pat}
    IN  IF I = {} THEN 0 ELSE Min(I)

\* The visible label of a rendered link: the text between "[" and "](".
LabelOf(out) == SubSeq(out, IndexOf(out, <<"[">>) + 1, IndexOf(out, <<"]", "(">>) - 1)

\* The destination of a rendered link: the text after "](", up to the quoted
\* title or the closing parenthesis.
DestOf(out) ==
    LET rest == SubSeq(out, IndexOf(out, <<"]", "(">>) + 2, Len(out) - 1)
        t    == IndexOf(rest, <<" ", "\"">>)
    IN  IF t = 0 THEN rest ELSE SubSeq(rest, 1, t - 1)

\* The file name of a path: what follows its last "/".
Basename(p) == SubSeq(p, LastSlash(p) + 1, Len(p))

EndsWith(s, suffix) ==
    Len(s) >= Len(suffix) /\ SubSeq(s, Len(s) - Len(suffix) + 1, Len(s)) = suffix

\* The first recognizer of ss, in registration order, that claims m; 0 for none.
FirstClaimant(ss, m) ==
    LET K == {k \in 1..Len(ss) : ScannerMatch(ss[k], m)}
    IN  IF K = {} THEN 0 ELSE Min(K)

\* The pieces of the last call in which _do_replace rendered a link.
Rewritten == {i \in 1..Len(result.pieces) : result.pieces[i].via \in {"index", "map", "self"}}

\* The in-text occurrences of the last document: the matches of the combined
\* pattern that a registered recognizer claims and decomposes into a Link.
Occurrences ==
    LET ms == FindIter(regex, result.markdown, 1)
    IN  {[start |-> ms[i].start, raw |-> ms[i].raw,
          link |-> ScannerExtract(scanners[FirstClaimant(scanners, ms[i])], ms[i])] :
            i \in {j \in 1..Len(ms) :
                     /\ FirstClaimant(scanners, ms[j]) # 0
                     /\ ~ExtractFails(scanners[FirstClaimant(scanners, ms[j])], ms[j])}}

\* The definition matches of the last document, in document order.
Definitions == FindIter(target_regex, result.markdown, 1)

\* The last call returned text in which the occurrence o stands unchanged.
EmittedUnchanged(o) ==
    /\ result.raised = "none"
    /\ \E i \in 1..Len(result.pieces) :
          result.pieces[i].start = o.start /\ result.pieces[i].out = o.raw

C2_UnresolvedLeftAsIs ==
    result.called =>
        \A o \in Occurrences :
            ( /\ o.link.target # Empty
              /\ o.link.target \notin DOMAIN result.target_map
              /\ Falsy(Search(file_map, result.path, o.link.target)) )
            => EmittedUnchanged(o)

\* C3: an occurrence resolved through the target map is rendered with the
\* title of the definition as its label when that title is non-empty, else
\* with the text written at the occurrence.
C3_LabelOfMapResolved ==
    \A i \in Rewritten :
        LET p == result.pieces[i]
        IN  p.via = "map" =>
                LabelOf(p.out) = IF result.target_map[p.link.target].title # Empty
                                 THEN result.target_map[p.link.target].title
                                 ELSE p.link.text

\* C4: in every rewritten occurrence, resolved through the index or through
\* the target map, the destination holds no raw space (a space of the path
\* is written %20) and ends with "#" and the anchor when there is one.
C4_PercentEncoded ==
    \A i \in Rewritten :
        LET p == result.pieces[i]
        IN  /\ ~Contains(DestOf(p.out), " ")
            /\ p.link.anchor # Empty => EndsWith(DestOf(p.out), <<"#">> \o p.link.anchor)

\* C5 as claimed: an occurrence with an empty target and a non-empty anchor
\* is rendered with the empty relative path, "#" and the anchor as its
\* destination, and the location index is not consulted.
C5_SelfAnchorEmptyPath ==
    \A i \in 1..Len(result.pieces) :
        LET p == result.pieces[i]
        IN  (p.via = "self" /\ p.link.target = Empty /\ p.link.anchor # Empty) =>
                /\ DestOf(p.out) = <<"#">> \o p.link.anchor
                /\ p.searched = <<>>

\* C5 as amended: an occurrence with an empty target and a non-empty anchor
\* is rendered with the percent-encoded file name of the current document,
\* "#" and the anchor as its destination, and the location index is not
\* consulted.
C5_SelfAnchorFileName ==
    \A o \in Occurrences :
        (o.link.target = Empty /\ o.link.anchor # Empty /\ result.raised = "none") =>
            \E i \in 1..Len(result.pieces) :
                LET p == result.pieces[i]
                IN  /\ p.start = o.start
                    /\ p.out # o.raw
                    /\ DestOf(p.out) = Quote(Basename(result.path)) \o <<"#">> \o o.link.anchor
                    /\ p.searched = <<>>

\* An image self-anchor in a document whose file name holds a space was
\* rendered.
C5_Witness ==
    \E i \in 1..Len(result.pieces) :
        /\ result.pieces[i].raw = wIA.raw
        /\ result.pieces[i].via = "self"
        /\ result.path = <<"c", "/", "m", " ", "y", ".", "m", "d">>
        /\ DestOf(result.pieces[i].out) = <<"m", "%", "2", "0", "y", ".", "m", "d", "#", "h">>

\* The path the claim expects for an index result sr when use_directory_urls
\* is false: ".md" is appended exactly when the file name has no extension.
C6_Expected(sr) ==
    IF ~Contains(Basename(sr), ".") THEN sr \o <<".", "m", "d">> ELSE sr

\* C6: with use_directory_urls false, every path the location index returns
\* gets ".md" exactly when its file name has no extension, in the replacement
\* pass and in the definition pass.
C6_MdSuffixByFileName ==
    (result.called /\ ~use_directory_urls) =>
        /\ \A i \in Rewritten :
              LET p  == result.pieces[i]
                  sr == Search(file_map, result.path, p.link.target)
              IN  (p.via = "index" /\ ~Falsy(sr)) =>
                      DestOf(p.out) =
                          Quote(Relpath(C6_Expected(sr), Dirname(PathJoin(Root, result.path))))
                              \o (IF p.link.anchor # Empty THEN <<"#">> \o p.link.anchor
                                  ELSE <<>>)
        /\ ( /\ Len(Definitions) = 1
             /\ Len(result.extracts) = 1
             /\ result.map_raised = "none" ) =>
              LET m    == Definitions[1]
                  link == ScannerExtract(target_scanners[result.extracts[1][2]], m)
                  sr   == Search(file_map, result.path, link.target)
              IN  ( /\ ~ExtractFails(target_scanners[result.extracts[1][2]], m)
                    /\ link.target # Empty
                    /\ ~Falsy(sr) ) =>
                      /\ link.text \in DOMAIN result.target_map
                      /\ result.target_map[link.text].target =
                            Relpath(C6_Expected(sr), Dirname(PathJoin(Root, result.path)))

\* C7: every rewritten occurrence, also one resolved through the target map,
\* begins with "!" exactly when the occurrence was an image link.
C7_ImageMarkerKept ==
    \A i \in Rewritten :
        LET p == result.pieces[i]
        IN  (p.out # Empty /\ p.out[1] = "!") <=> p.link.image

\* C8: in the definition pass only the first recognizer, in registration
\* order, that claims a match has its extract called for it, and the entry
\* of a document with one definition is the one of that first claimant.
C8_FirstDefinitionRecognizerOnly ==
    result.called =>
        /\ \A i \in 1..Len(result.extracts) :
              \E j \in 1..Len(Definitions) :
                  /\ Definitions[j].start = result.extracts[i][1]
                  /\ result.extracts[i][2] = FirstClaimant(target_scanners, Definitions[j])
        /\ (Len(Definitions) = 1 /\ FirstClaimant(target_scanners, Definitions[1]) # 0) =>
              LET m    == Definitions[1]
                  link == ScannerExtract(
                              target_scanners[FirstClaimant(target_scanners, m)], m)
              IN  link.text \in DOMAIN result.target_map =>
                      result.target_map[link.text].title = link.title

RECURSIVE C9_ExpectedMap(_, _)
\* The map the claim describes: each definition, in document order, is taken
\* by its first claimant; one that cannot be extracted, has neither target
\* nor anchor, or is not found by the index adds nothing; a later definition
\* of the same text replaces an earlier one.
C9_ExpectedMap(ms, map) ==
    IF ms = <<>> THEN map
    ELSE LET m == Head(ms)
             k == FirstClaimant(target_scanners, m)
         IN  IF k = 0 \/ ExtractFails(target_scanners[k], m)
             THEN C9_ExpectedMap(Tail(ms), map)
             ELSE LET link == ScannerExtract(target_scanners[k], m)
                      sr   == Search(file_map, result.path, link.target)
                      from == Dirname(PathJoin(Root, result.path))
                  IN  IF link.target = Empty
                      THEN IF link.anchor = Empty THEN C9_ExpectedMap(Tail(ms), map)
                           ELSE C9_ExpectedMap(Tail(ms),
                                    MapPut(map, link.text,
                                        [link EXCEPT !.target =
                                            Relpath(PathJoin(Root, result.path), from)]))
                      ELSE IF Falsy(sr) THEN C9_ExpectedMap(Tail(ms), map)
                      ELSE C9_ExpectedMap(Tail(ms),
                               MapPut(map, link.text,
                                   [link EXCEPT !.target =
                                       Relpath(IF use_directory_urls THEN sr
                                               ELSE MdSuffixed(sr), from)]))

\* C9: a Broken-Link on one definition aborts only that definition: it adds
\* no entry, the later definitions are processed, and each key finally holds
\* the last definition of that text that resolved.
C9_BrokenDefinitionSkipped ==
    result.called =>
        /\ result.map_raised = "none"
        /\ result.target_map = C9_ExpectedMap(Definitions, EmptyMap)

\* C10: after any earlier calls on one compiled engine, replace(path, text)
\* returns what a freshly compiled engine with the same recognizers and index
\* returns, and the current path is the one passed to this call.
C10_SameAsFreshEngine ==
    result.called =>
        LET fresh == replace([Self EXCEPT !.path = None], result.path, result.markdown)
        IN  /\ result.out = fresh.out
            /\ result.raised = fresh.raised
            /\ result.target_map = fresh.target_map
            /\ path = result.path

\* A document that uses the reference R without defining it was left as it
\* is, after an earlier document at another path had defined R.
C10_Witness ==
    /\ Len(history) = 2
    /\ history[1] = <<<<"a", "/", "b", ".", "m", "d">>, <<dRT, wR>>>>
    /\ history[2] = <<<<"c", "/", "m", " ", "y", ".", "m", "d">>, <<wR>>>>
    /\ scanners = <<WikiLinkScanner>>
    /\ target_scanners = <<RefDefScanner>>
    /\ use_directory_urls
    /\ result.raised = "none"
    /\ result.out = wR.raw

====
